---- MODULE Spec2Model ----
(***************************************************************************)
(* Model of pwiki's wikitext document model (src/pwiki/wparser.py):        *)
(* WikiText ("Document") and WikiTemplate ("Template") objects living in   *)
(* a heap, and the public operations that mutate them.                     *)
(*                                                                         *)
(* Objects are heap cells named by small integers.  WikiText objects are   *)
(* 1..ndocs, WikiTemplate objects are 1..ntpls.  A python `str` is a       *)
(* sequence of characters.                                                 *)
(***************************************************************************)
EXTENDS Integers, Sequences, FiniteSets, TLC

\* ---------------------------------------------------------------- bounds
\* The sizes explored.  Several explorations are made, each wide where its claims
\* need it and narrow elsewhere; `lim` holds the sizes of the one under way.
\*   Spec       : every call recorded; documents of up to MaxNodes nodes
MaxDocs   == 2     \* WikiText objects that may be allocated
MaxTpls   == 1     \* WikiTemplate objects that may be allocated
MaxNodes  == 3     \* longest WikiText._l
MaxText   == 1     \* longest text run
MaxKeys   == 1     \* distinct string keys passed
MaxChars  == 1     \* distinct characters of text
MaxTitles == 1     \* distinct titles passed
MaxElems  == 1     \* most arguments of WikiText(*elements)
\*   SpecAppend : appends recorded; longer text over two characters
AppDocs   == 2
AppTpls   == 1
AppNodes  == 2
AppText   == 2
AppKeys   == 0
AppChars  == 2
AppTitles == 1
AppElems  == 2
\*   SpecKeys   : renames recorded; three keys
KeyDocs   == 2
KeyTpls   == 1
KeyNodes  == 1
KeyText   == 1
KeyKeys   == 3
KeyChars  == 1
KeyTitles == 1
KeyElems  == 1
\*   SpecSet    : parameter assignments recorded; two keys
SetDocs   == 2
SetTpls   == 1
SetNodes  == 1
SetText   == 1
SetKeys   == 2
SetChars  == 1
SetTitles == 1
SetElems  == 1
\*   SpecParams : the calls on the parameters of a template recorded; two keys
ParDocs   == 2
ParTpls   == 1
ParNodes  == 1
ParText   == 1
ParKeys   == 2
ParChars  == 1
ParTitles == 1
ParElems  == 1
\*   SpecAtp    : append_to_params recorded; documents of two nodes, longer text
AtpDocs   == 2
AtpTpls   == 1
AtpNodes  == 2
AtpText   == 2
AtpKeys   == 1
AtpChars  == 1
AtpTitles == 1
AtpElems  == 1
\*   SpecText   : serializations recorded; text with blanks, two keys, two titles
TxtDocs   == 2
TxtTpls   == 1
TxtNodes  == 2
TxtText   == 1
TxtKeys   == 2
TxtChars  == 2
TxtTitles == 2
TxtElems  == 1
\*   SpecParse  : the parser applied to a parse tree; room for what it builds
PrsDocs   == 20
PrsTpls   == 10
PrsNodes  == 12
PrsText   == 30
PrsKeys   == 0
PrsChars  == 1
PrsTitles == 1
PrsElems  == 1
PrsKids   == 2     \* most children of the root of a parse tree
PrsParts  == 2     \* most parts of a template of a parse tree
\*   SpecNorm   : title normalization of up to NrmGiven templates
NrmDocs   == 0
NrmTpls   == 2
NrmNodes  == 1
NrmText   == 1
NrmKeys   == 0
NrmChars  == 1
NrmTitles == 3
NrmElems  == 1
NrmGiven  == 2     \* most templates handed to normalize
\*   SpecTrip   : Documents serialized and parsed back
TrpDocs   == 5
TrpTpls   == 2
TrpNodes  == 2
TrpText   == 1
TrpKeys   == 1
TrpChars  == 2
TrpTitles == 2
TrpElems  == 1
TrpBuiltDocs == 2  \* most Documents built before one is parsed back
TrpBuiltTpls == 1  \* most Templates built before a Document is parsed back

\* `None` (an absent parent, an absent result)
None == 0

\* ---------------------------------------------------------------- values
\* python values handed to the operations
StrVal(s) == [ty |-> "str", s |-> s, id |-> None]
TplVal(t) == [ty |-> "tpl", s |-> <<>>, id |-> t]
DocVal(d) == [ty |-> "doc", s |-> <<>>, id |-> d]
\* a value that is neither str, WikiTemplate nor WikiText (e.g. an int)
OtherVal  == [ty |-> "other", s |-> <<>>, id |-> None]

\* characters of text, string keys, and titles, in the order the explorations
\* take them up
CharNames  == <<"x", " ", "y", "z">>
KeyNames   == << <<"a">>, <<"b">>, <<"c">>, <<"d">>, <<"e">> >>
\* `None` where a str may stand (a title, a key, the text of an element); it is
\* no sequence of characters
NoneStr    == <<"None">>
NoTitle    == NoneStr
TitleNames == <<NoTitle, <<"T">>, <<"U">>, <<"V">> >>
\* a key that is not a str (the int 5)
NonStrKey  == <<"int:5">>
\* isinstance(key, str)
IsStr(k) == k # NonStrKey /\ k # NoneStr

\* the calls a history can record
AllOps == {"WikiText", "WikiTemplate", "iadd", "all_templates", "getitem",
           "setitem", "pop", "drop", "remap", "touch", "append_to_params"}

VARIABLES
    docs,     \* docs[d]   : WikiText._l of object d, a sequence of str / template nodes
    ndocs,    \* WikiText objects allocated so far
    ntpls,    \* WikiTemplate objects allocated so far
    title,    \* title[t]  : WikiTemplate.title
    parent,   \* parent[t] : WikiTemplate.parent (a doc id, or None)
    params,   \* params[t] : WikiTemplate._params, an insertion-ordered dict,
              \*             a sequence of [k |-> key, d |-> doc id]
    misuse,   \* history: some template was appended while it already had a parent
    hung,     \* the program is inside a call that never returns
    last,     \* history: the last recorded call, its arguments and its outcome
    lim,      \* the sizes explored and the calls recorded (never changes)
    tree      \* the parse tree the server's reply holds, until it is parsed

vars == <<docs, ndocs, ntpls, title, parent, params, misuse, hung, last, lim, tree>>

\* the strings, keys and titles callers pass
StrArgs   == {<<>>} \cup {<<CharNames[i]>> : i \in 1..lim.chars}
StrKeys   == {KeyNames[i] : i \in 1..lim.keys}
KeyArgs   == StrKeys \cup {NonStrKey}
TitleArgs == {TitleNames[i] : i \in 1..lim.titles}

\* The object graph an operation works on, as one value.
Graph == [docs |-> docs, ndocs |-> ndocs, parent |-> parent, params |-> params,
          misuse |-> misuse]

\* The graph together with the templates allocated and their titles.
Heap == [docs |-> docs, ndocs |-> ndocs, ntpls |-> ntpls, title |-> title,
         parent |-> parent, params |-> params, misuse |-> misuse]

\* outcomes of a call: the graph it leaves, the exception it raised ("none" if it
\* returned) and the value it returned
Ok(g)        == [g |-> g, err |-> "none", ret |-> None]
Return(g, r) == [g |-> g, err |-> "none", ret |-> r]
Raise(g, e)  == [g |-> g, err |-> e, ret |-> None]

\* ---------------------------------------------------------------- WikiText
\* bool(self._l)
Bool(g, d) == g.docs[d] # <<>>

\* IAddElem with the merge of adjacent text forgotten: every text is a new node
IAddElemNoMerge(g, d, e) ==
    IF e.ty = "str"
    THEN IF e.s = <<>> THEN g ELSE [g EXCEPT !.docs[d] = Append(@, e)]
    ELSE [g EXCEPT !.docs[d] = Append(@, e),
                   !.parent[e.id] = d,
                   !.misuse = @ \/ g.parent[e.id] # None]

\* one `self += other` for a str or a WikiTemplate
IAddElem(g, d, e) ==
    IF e.ty = "str"
    THEN IF e.s = <<>>
         THEN g
         ELSE IF g.docs[d] # <<>> /\ g.docs[d][Len(g.docs[d])].ty = "str"
              THEN [g EXCEPT !.docs[d][Len(g.docs[d])] =
                                 StrVal(g.docs[d][Len(g.docs[d])].s \o e.s)]
              ELSE [g EXCEPT !.docs[d] = Append(@, e)]
    ELSE [g EXCEPT !.docs[d] = Append(@, e),
                   !.parent[e.id] = d,
                   !.misuse = @ \/ g.parent[e.id] # None]

\* `for e in other._l: self += e`, reading other._l as it is at each step (it is
\* the list being appended to when other is self).  The walk is cut once self._l
\* has outgrown the explored length.
RECURSIVE IAddLoop(_, _, _, _)
IAddLoop(g, d, o, i) ==
    IF i > Len(g.docs[o]) \/ Len(g.docs[d]) > lim.nodes
    THEN g
    ELSE IAddLoop(IAddElem(g, d, g.docs[o][i]), d, o, i + 1)

\* WikiText.__iadd__
IAdd(g, d, other) ==
    IF other.ty \in {"str", "tpl"} THEN Ok(IAddElem(g, d, other))
    ELSE IF other.ty = "doc" THEN Ok(IAddLoop(g, d, other.id, 1))
    ELSE Raise(g, "TypeError")

\* `d += d` on a list holding a template appends one node per node visited, so the
\* walk never reaches the end of the list: the call does not return.
Diverges(g, d, other) ==
    /\ other.ty = "doc"
    /\ other.id = d
    /\ Len(IAddLoop(g, d, d, 1).docs[d]) > lim.nodes

\* the body of WikiText.__init__ : `for e in elements: self += e`
RECURSIVE InitLoop(_, _, _, _)
InitLoop(g, d, elements, i) ==
    IF i > Len(elements)
    THEN Return(g, d)
    ELSE LET r == IAdd(g, d, elements[i])
         IN  IF r.err # "none" THEN r ELSE InitLoop(r.g, d, elements, i + 1)

\* WikiText(*elements): a fresh object, then the elements appended in order
WikiTextInit(g, elements) ==
    LET d == g.ndocs + 1
    IN  InitLoop([g EXCEPT !.ndocs = d, !.docs[d] = <<>>], d, elements, 1)

\* WikiText.templates
RECURSIVE Templates(_)
Templates(l) ==
    IF l = <<>> THEN <<>>
    ELSE IF Head(l).ty = "tpl" THEN <<Head(l).id>> \o Templates(Tail(l))
    ELSE Templates(Tail(l))

\* WikiText.all_templates: the stack is seeded with self.templates; the first
\* template popped is asked for `.templates`, an attribute WikiTemplate lacks.
AllTemplates(g, d) ==
    LET q == Templates(g.docs[d])
    IN  IF q = <<>> THEN [err |-> "none", out |-> <<>>]
        ELSE [err |-> "AttributeError", out |-> <<>>]

\* ---------------------------------------------------------------- WikiTemplate
\* the insertion-ordered dict WikiTemplate._params
DictKeys(ps) == [i \in 1..Len(ps) |-> ps[i].k]
DictHas(ps, k) == \E i \in 1..Len(ps) : ps[i].k = k
DictIndex(ps, k) == CHOOSE i \in 1..Len(ps) : ps[i].k = k
DictGet(ps, k) == ps[DictIndex(ps, k)].d
\* d[k] = v : an existing key keeps its place, a new key goes last
DictSet(ps, k, v) ==
    IF DictHas(ps, k)
    THEN [ps EXCEPT ![DictIndex(ps, k)] = [k |-> k, d |-> v]]
    ELSE Append(ps, [k |-> k, d |-> v])
\* d.pop(k) for a key that is present
DictDel(ps, k) ==
    LET i == DictIndex(ps, k)
    IN  SubSeq(ps, 1, i - 1) \o SubSeq(ps, i + 1, Len(ps))

\* WikiTemplate.__contains__
Contains(g, t, key) == DictHas(g.params[t], key)

\* WikiTemplate.__getitem__
GetItem(g, t, key) ==
    IF ~Contains(g, t, key)
    THEN Raise(g, "KeyError")
    ELSE Return(g, DictGet(g.params[t], key))

\* __setitem__ with the isinstance check of the key forgotten
SetItemNoKeyCheck(g, t, key, value) ==
    IF value.ty \notin {"str", "tpl", "doc"} THEN Raise(g, "TypeError")
    ELSE IF value.ty = "doc"
         THEN Ok([g EXCEPT !.params[t] = DictSet(@, key, value.id)])
         ELSE LET w == WikiTextInit(g, <<value>>)
              IN  Ok([w.g EXCEPT !.params[t] = DictSet(@, key, w.ret)])

\* __setitem__ wrapping every value, a WikiText too, in WikiText(value)
SetItemAlwaysWrap(g, t, key, value) ==
    IF ~IsStr(key) THEN Raise(g, "TypeError")
    ELSE IF value.ty \notin {"str", "tpl", "doc"} THEN Raise(g, "TypeError")
    ELSE LET w == WikiTextInit(g, <<value>>)
         IN  Ok([w.g EXCEPT !.params[t] = DictSet(@, key, w.ret)])

\* WikiTemplate.__setitem__
SetItem(g, t, key, value) ==
    IF ~IsStr(key) THEN Raise(g, "TypeError")
    ELSE IF value.ty \notin {"str", "tpl", "doc"} THEN Raise(g, "TypeError")
    ELSE IF value.ty = "doc"
         THEN Ok([g EXCEPT !.params[t] = DictSet(@, key, value.id)])
         ELSE LET w == WikiTextInit(g, <<value>>)
              IN  Ok([w.g EXCEPT !.params[t] = DictSet(@, key, w.ret)])

\* WikiTemplate.set_param, an alias of __setitem__
SetParam(g, t, k, v) == SetItem(g, t, k, v)

\* WikiTemplate.has_key
HasKey(g, t, key, empty_ok) ==
    Contains(g, t, key) /\ (empty_ok \/ Bool(g, DictGet(g.params[t], key)))

\* pop without `suppress(KeyError)`: an absent key raises
PopNoSuppress(g, t, k) ==
    IF DictHas(g.params[t], k)
    THEN Return([g EXCEPT !.params[t] = DictDel(@, k)], DictGet(g.params[t], k))
    ELSE Raise(g, "KeyError")

\* WikiTemplate.pop : the KeyError of an absent key is suppressed, None is returned
Pop(g, t, k) ==
    IF DictHas(g.params[t], k)
    THEN Return([g EXCEPT !.params[t] = DictDel(@, k)], DictGet(g.params[t], k))
    ELSE Return(g, None)

\* list.remove(x): the first occurrence goes
RemoveFirst(l, t) ==
    LET i == CHOOSE j \in 1..Len(l) :
                 /\ l[j] = TplVal(t)
                 /\ \A h \in 1..(j - 1) : l[h] # TplVal(t)
    IN  SubSeq(l, 1, i - 1) \o SubSeq(l, i + 1, Len(l))

\* WikiTemplate.drop : `if self.parent` is the truth value of the parent, i.e.
\* WikiText.__bool__ when a parent is set
Drop(g, t) ==
    IF g.parent[t] # None /\ Bool(g, g.parent[t])
    THEN IF \E j \in 1..Len(g.docs[g.parent[t]]) : g.docs[g.parent[t]][j] = TplVal(t)
         THEN Ok([g EXCEPT !.docs[g.parent[t]] = RemoveFirst(@, t),
                           !.parent[t] = None])
         ELSE Raise(g, "ValueError")
    ELSE Ok(g)

\* remap written as `self[new_key] = self[old_key]`: the old key is kept
RemapKeepOld(g, t, old_key, new_key) ==
    IF Contains(g, t, old_key)
    THEN SetItem(g, t, new_key, DocVal(DictGet(g.params[t], old_key)))
    ELSE Ok(g)

\* WikiTemplate.remap : `self[new_key] = self.pop(old_key)`, the pop is evaluated
\* first
Remap(g, t, old_key, new_key) ==
    IF Contains(g, t, old_key)
    THEN LET p == Pop(g, t, old_key)
         IN  SetItem(p.g, t, new_key, DocVal(p.ret))
    ELSE Ok(g)

\* touch without the `k not in self` test: a present key is reset to WikiText()
TouchAlways(g, t, k) ==
    LET w == WikiTextInit(g, <<>>)
        r == SetItem(w.g, t, k, DocVal(w.ret))
    IN  IF r.err # "none" THEN Raise(g, r.err) ELSE r

\* WikiTemplate.touch : WikiText() is built, then assigned.  When the assignment
\* raises, the fresh empty WikiText is referenced by nothing and is dropped.
Touch(g, t, k) ==
    IF ~Contains(g, t, k)
    THEN LET w == WikiTextInit(g, <<>>)
             r == SetItem(w.g, t, k, DocVal(w.ret))
         IN  IF r.err # "none" THEN Raise(g, r.err) ELSE r
    ELSE Ok(g)

\* append_to_params written as `self[k] = e` for a present key too
AppendToParamsReplace(g, t, k, e) == SetItem(g, t, k, e)

\* WikiTemplate.append_to_params : `self[k] += e` is __getitem__, __iadd__, then
\* __setitem__ of the same WikiText
AppendToParams(g, t, k, e) ==
    IF Contains(g, t, k)
    THEN LET d == DictGet(g.params[t], k)
             r == IAdd(g, d, e)
         IN  IF r.err # "none" THEN r ELSE SetItem(r.g, t, k, DocVal(d))
    ELSE SetItem(g, t, k, e)

\* ---------------------------------------------------------------- as_text
\* str.strip(): leading and trailing whitespace goes
IsSpace(c) == c \in {" ", "\n", "\t"}
RECURSIVE LStrip(_)
LStrip(s) == IF s # <<>> /\ IsSpace(Head(s)) THEN LStrip(Tail(s)) ELSE s
RECURSIVE RStrip(_)
RStrip(s) ==
    IF s # <<>> /\ IsSpace(s[Len(s)]) THEN RStrip(SubSeq(s, 1, Len(s) - 1)) ELSE s
Strip(s) == RStrip(LStrip(s))

\* f"{self.title}" : the title, `None` formatted as the word None
TitleText(tt) == IF tt = NoneStr THEN <<"N", "o", "n", "e">> ELSE tt

\* the string built, or the exception raised while building it
Text(s)   == [err |-> "none", s |-> s]
NoText(e) == [err |-> e, s |-> <<>>]

\* Rendering descends from a WikiText into its templates and from a template
\* into its parameter values.  `depth` counts the templates entered; when it
\* exceeds the number of templates there are, the descent is going round a
\* cycle, which ends in python's RecursionError.
RECURSIVE WikiTextAsText(_, _, _, _)
RECURSIVE JoinNodes(_, _, _, _)
RECURSIVE JoinParams(_, _, _, _, _)

\* as_text without `if indent: out += "\n"`
TemplateAsTextNoNewline(h, t, indent, depth) ==
    IF depth > h.ntpls THEN NoText("RecursionError")
    ELSE LET prefix == (IF indent THEN <<"\n">> ELSE <<>>) \o <<"|">>
             out == JoinParams(h, h.params[t], 1, prefix, depth)
         IN  IF out.err # "none" THEN out
             ELSE Text(<<"{", "{">> \o TitleText(h.title[t]) \o out.s
                         \o <<"}", "}">>)

\* WikiTemplate.as_text(indent); WikiTemplate.__str__ is as_text()
TemplateAsText(h, t, indent, depth) ==
    IF depth > h.ntpls THEN NoText("RecursionError")
    ELSE LET prefix == (IF indent THEN <<"\n">> ELSE <<>>) \o <<"|">>
             out == JoinParams(h, h.params[t], 1, prefix, depth)
         IN  IF out.err # "none" THEN out
             ELSE Text(<<"{", "{">> \o TitleText(h.title[t]) \o out.s
                         \o (IF indent THEN <<"\n">> ELSE <<>>) \o <<"}", "}">>)

\* "".join(f"{prefix}{k}={v}" for k, v in self._params.items()), from the i-th
\* parameter on; {v} is str(v), the WikiText trimmed
JoinParams(h, ps, i, prefix, depth) ==
    IF i > Len(ps) THEN Text(<<>>)
    ELSE LET v == WikiTextAsText(h, ps[i].d, TRUE, depth)
         IN  IF v.err # "none" THEN v
             ELSE LET rest == JoinParams(h, ps, i + 1, prefix, depth)
                  IN  IF rest.err # "none" THEN rest
                      ELSE Text(prefix \o ps[i].k \o <<"=">> \o v.s \o rest.s)

\* "".join(str(x) for x in self._l), from the i-th node on
JoinNodes(h, l, i, depth) ==
    IF i > Len(l) THEN Text(<<>>)
    ELSE LET x == IF l[i].ty = "str" THEN Text(l[i].s)
                  ELSE TemplateAsText(h, l[i].id, FALSE, depth + 1)
         IN  IF x.err # "none" THEN x
             ELSE LET rest == JoinNodes(h, l, i + 1, depth)
                  IN  IF rest.err # "none" THEN rest ELSE Text(x.s \o rest.s)

\* WikiText.as_text(trim); WikiText.__str__ is as_text(True)
WikiTextAsText(h, d, trim, depth) ==
    LET out == JoinNodes(h, h.docs[d], 1, depth)
    IN  IF out.err # "none" THEN out
        ELSE Text(IF trim THEN Strip(out.s) ELSE out.s)

\* ---------------------------------------------------------------- WParser
\* An xml.etree Element of the parse tree: its tag, its text and tail (NoneStr
\* when absent), its `index` attribute (NoneStr when absent) and its children.
El(tag, text, tail, index, kids) ==
    [tag |-> tag, text |-> text, tail |-> tail, index |-> index, kids |-> kids]

\* no parse tree, and a reply that could not be fetched or read as XML
NoTree     == El("", NoneStr, NoneStr, NoneStr, <<>>)
FetchError == El("!", NoneStr, NoneStr, NoneStr, <<>>)

\* the truth value of an optional str: None and "" are false
Truthy(s) == s # NoneStr /\ s # <<>>

\* WikiTemplate() : a fresh template without title, parent or parameters
WikiTemplateInit(h) ==
    LET t == h.ntpls + 1
    IN  Return([h EXCEPT !.ntpls = t, !.title[t] = NoneStr, !.parent[t] = None,
                         !.params[t] = <<>>], t)

\* `out += s if s` for an optional str s
AddText(h, d, s) == IF Truthy(s) THEN IAdd(h, d, StrVal(s)).g ELSE h

RECURSIVE ParseWikiText(_, _, _)
RECURSIVE ParseKids(_, _, _, _, _)
RECURSIVE ParseWikiTemplate(_, _)
RECURSIVE ParseTemplateKids(_, _, _, _)
RECURSIVE ParseParameterKids(_, _, _, _, _)

\* WParser._parse_template_parameter, from the i-th child on: the last `name`
\* gives the key, the last `value` the value
ParseParameterKids(h, kids, i, key, value) ==
    IF i > Len(kids) THEN [g |-> h, err |-> "none", key |-> key, value |-> value]
    ELSE LET x == kids[i]
         IN  IF x.tag = "name"
             THEN IF Truthy(x.index)
                  THEN ParseParameterKids(h, kids, i + 1, x.index, value)
                  ELSE IF x.text = NoneStr
                       THEN [g |-> h, err |-> "AttributeError", key |-> key,
                             value |-> value]
                       ELSE ParseParameterKids(h, kids, i + 1, Strip(x.text), value)
             ELSE IF x.tag = "value"
                  THEN LET r == ParseWikiText(h, x, TRUE)
                       IN  IF r.err # "none"
                           THEN [g |-> h, err |-> r.err, key |-> key, value |-> value]
                           ELSE ParseParameterKids(r.g, kids, i + 1, key, DocVal(r.ret))
                  ELSE ParseParameterKids(h, kids, i + 1, key, value)

\* WParser._parse_template_parameter : key and value start as None
ParseTemplateParameter(h, root) ==
    ParseParameterKids(h, root.kids, 1, NoneStr, OtherVal)

\* the title parsed with flatten=True: other tags give their text
ParseTitleFlatten(h, x) ==
    LET r == ParseWikiText(h, x, TRUE)
    IN  IF r.err # "none" THEN [g |-> h, err |-> r.err, s |-> <<>>]
        ELSE [g |-> r.g, err |-> "none", s |-> WikiTextAsText(r.g, r.ret, TRUE, 0).s]

\* `str(WParser._parse_wiki_text(x, False))` for a title element x
ParseTitle(h, x) ==
    LET r == ParseWikiText(h, x, FALSE)
    IN  IF r.err # "none" THEN [g |-> h, err |-> r.err, s |-> <<>>]
        ELSE [g |-> r.g, err |-> "none", s |-> WikiTextAsText(r.g, r.ret, TRUE, 0).s]

\* the loop of WParser._parse_wiki_template, from the i-th child on
ParseTemplateKids(h, t, kids, i) ==
    IF i > Len(kids) THEN Return(h, t)
    ELSE LET x == kids[i]
         IN  IF x.tag = "title"
             THEN LET r == ParseTitle(h, x)
                  IN  IF r.err # "none" THEN Raise(h, r.err)
                      ELSE ParseTemplateKids([r.g EXCEPT !.title[t] = r.s],
                                             t, kids, i + 1)
             ELSE IF x.tag = "part"
                  THEN LET p == ParseTemplateParameter(h, x)
                       IN  IF p.err # "none" THEN Raise(h, p.err)
                           ELSE LET r == SetParam(p.g, t, p.key, p.value)
                                IN  IF r.err # "none" THEN Raise(h, r.err)
                                    ELSE ParseTemplateKids(r.g, t, kids, i + 1)
                  ELSE ParseTemplateKids(h, t, kids, i + 1)

\* WParser._parse_wiki_template
ParseWikiTemplate(h, root) ==
    LET w == WikiTemplateInit(h)
    IN  ParseTemplateKids(w.g, w.ret, root.kids, 1)

\* the loop of WParser._parse_wiki_text, from the i-th child on: a template is
\* parsed and appended, another tag is parsed and appended when flattening and
\* skipped otherwise, then the tail of the child is appended
ParseKids(h, d, kids, i, flatten) ==
    IF i > Len(kids) THEN Return(h, d)
    ELSE LET x == kids[i]
             r == IF x.tag = "template" THEN ParseWikiTemplate(h, x)
                  ELSE IF flatten THEN ParseWikiText(h, x, flatten)
                  ELSE Ok(h)
         IN  IF r.err # "none" THEN Raise(h, r.err)
             ELSE LET a == IF x.tag = "template" THEN IAdd(r.g, d, TplVal(r.ret)).g
                           ELSE IF flatten THEN IAdd(r.g, d, DocVal(r.ret)).g
                           ELSE r.g
                  IN  ParseKids(AddText(a, d, x.tail), d, kids, i + 1, flatten)

\* _parse_wiki_text without `if root.text: out += root.text`
ParseWikiTextNoText(h, root, flatten) ==
    LET w == WikiTextInit(h, <<>>)
    IN  ParseKids(w.g, w.ret, root.kids, 1, flatten)

\* WParser._parse_wiki_text
ParseWikiText(h, root, flatten) ==
    LET w == WikiTextInit(h, <<>>)
    IN  ParseKids(AddText(w.g, w.ret, root.text), w.ret, root.kids, 1, flatten)

\* WParser.parse without the try: an exception reaches the caller
ParseNoTry(h, given, reply) ==
    IF ~given THEN Raise(h, "ValueError")
    ELSE IF reply = FetchError THEN Raise(h, "FetchError")
    ELSE LET r == ParseWikiText(h, reply, TRUE)
         IN  IF r.err # "none" THEN Raise(h, r.err) ELSE r

\* WParser.parse(wiki, title, text), `given` telling whether a title or a text was
\* passed and `reply` what fetching the parse tree gives.  Whatever is raised
\* inside the try is logged and None is returned; the objects built until then
\* are referenced by nothing.
Parse(h, given, reply) ==
    IF ~given THEN Raise(h, "ValueError")
    ELSE IF reply = FetchError THEN Return(h, None)
    ELSE LET r == ParseWikiText(h, reply, TRUE)
         IN  IF r.err # "none" THEN Return(h, None) ELSE r

\* ---------------------------------------------------------------- the parse tree
\* What the wiki answers when WParser.parse posts a text: the tree of the text,
\* with `template` elements holding a `title` and, for each |name=value, a `part`
\* holding `name`, `equals` and `value`.  The text is read from left to right.

\* an element's text or tail: absent when there are no characters
Opt(s) == IF s = <<>> THEN NoneStr ELSE s

\* whether {{ or }} starts at position i of s
OpensAt(s, i)  == i < Len(s) /\ s[i] = "{" /\ s[i + 1] = "{"
ClosesAt(s, i) == i < Len(s) /\ s[i] = "}" /\ s[i + 1] = "}"

\* whether plain text stops at position i: at the end, at {{ and, inside a
\* template, at | and at }}
Stops(s, i, inner) ==
    \/ i > Len(s)
    \/ OpensAt(s, i)
    \/ inner /\ (s[i] = "|" \/ ClosesAt(s, i))

\* where the plain text that starts at position i stops
PlainEnd(s, i, inner) ==
    CHOOSE j \in i..(Len(s) + 1) :
        Stops(s, j, inner) /\ \A m \in i..(j - 1) : ~Stops(s, m, inner)

\* where the name that starts at position i stops: at its = sign
NameEnd(s, i) ==
    CHOOSE j \in i..(Len(s) + 1) :
        /\ j > Len(s) \/ s[j] = "="
        /\ \A m \in i..(j - 1) : s[m] # "="

\* the text and the templates from position i on, up to where the enclosing
\* template goes on (inner) or to the end of s, and the position reached
RECURSIVE ReadContent(_, _, _)
RECURSIVE ReadTemplate(_, _)
RECURSIVE ReadParts(_, _)
ReadContent(s, i, inner) ==
    LET j == PlainEnd(s, i, inner)
    IN  IF OpensAt(s, j)
        THEN LET t    == ReadTemplate(s, j + 2)
                 rest == ReadContent(s, t.i, inner)
             IN  [text |-> SubSeq(s, i, j - 1),
                  kids |-> <<[t.el EXCEPT !.tail = Opt(rest.text)]>> \o rest.kids,
                  i |-> rest.i]
        ELSE [text |-> SubSeq(s, i, j - 1), kids |-> <<>>, i |-> j]

\* the template whose title starts at position i, and the position after its }}
ReadTemplate(s, i) ==
    LET c  == ReadContent(s, i, TRUE)
        ps == ReadParts(s, c.i)
    IN  [el |-> El("template", NoneStr, NoneStr, NoneStr,
                   <<El("title", Opt(c.text), NoneStr, NoneStr, c.kids)>> \o ps.kids),
         i |-> ps.i]

\* the parts from position i on, each starting with |, and the position after
\* the }} that follows them
ReadParts(s, i) ==
    IF i <= Len(s) /\ s[i] = "|"
    THEN LET e    == NameEnd(s, i + 1)
             v    == ReadContent(s, e + 1, TRUE)
             rest == ReadParts(s, v.i)
         IN  [kids |->
                  <<El("part", NoneStr, NoneStr, NoneStr,
                       <<El("name", Opt(SubSeq(s, i + 1, e - 1)), NoneStr, NoneStr, <<>>),
                         El("equals", <<"=">>, NoneStr, NoneStr, <<>>),
                         El("value", Opt(v.text), NoneStr, NoneStr, v.kids)>>)>>
                  \o rest.kids,
              i |-> rest.i]
    ELSE [kids |-> <<>>, i |-> i + 2]

\* the parse tree of the text s
ParseTree(s) ==
    LET c == ReadContent(s, 1, FALSE)
    IN  El("root", Opt(c.text), NoneStr, NoneStr, c.kids)

\* ---------------------------------------------------------------- normalize
\* The namespace names the wiki's NSManager was built with (its regex alternates
\* them in this order), and the name of NS.TEMPLATE among them.
NsNames    == << <<"T", "e", "m", "p", "l", "a", "t", "e">>, <<"H", "e", "l", "p">> >>
TemplateNs == NsNames[1]
MainNs     == <<"M", "a", "i", "n">>

\* the regex is compiled with (?i): letters match in either case
Lower(c) ==
    CASE c = "T" -> "t" [] c = "H" -> "h" [] c = "U" -> "u" [] c = "V" -> "v"
      [] OTHER -> c

\* ns_regex.match(title) for the alternative `name:` at the start of the title
MatchesNs(s, name) ==
    /\ Len(s) > Len(name)
    /\ \A i \in 1..Len(name) : Lower(s[i]) = Lower(name[i])
    /\ s[Len(name) + 1] = ":"

\* the first alternative of ns_regex that matches, 0 when none does
NsMatch(s) ==
    IF \E i \in DOMAIN NsNames : MatchesNs(s, NsNames[i])
    THEN CHOOSE i \in DOMAIN NsNames :
             /\ MatchesNs(s, NsNames[i])
             /\ \A j \in 1..(i - 1) : ~MatchesNs(s, NsNames[j])
    ELSE 0

\* Wiki.which_ns : the matched text without its colon, as the title writes it
WhichNs(s) ==
    IF NsMatch(s) = 0 THEN MainNs ELSE SubSeq(s, 1, Len(NsNames[NsMatch(s)]))

\* Wiki.nss : the matched prefix removed
Nss(s) ==
    IF NsMatch(s) = 0 THEN s ELSE SubSeq(s, Len(NsNames[NsMatch(s)]) + 2, Len(s))

\* `m = {t.title: t for t in tl}` read at key k: the last of tl with that title
TitleDict(h, tl, k) ==
    tl[CHOOSE i \in 1..Len(tl) :
           /\ h.title[tl[i]] = k
           /\ \A j \in (i + 1)..Len(tl) : h.title[tl[j]] # k]

\* the title written for the normalized title v
Rewritten(v) == IF WhichNs(v) = TemplateNs THEN Nss(v) ELSE v

\* WikiTemplate.normalize(wiki, *tl), `reply` being the old -> new pairs that
\* OQuery.normalize_titles returns for the titles of tl
Normalize(h, tl, reply) ==
    Ok([h EXCEPT !.title =
           [t \in DOMAIN h.title |->
               IF \E p \in reply : TitleDict(h, tl, p.old) = t
               THEN Rewritten((CHOOSE p \in reply : TitleDict(h, tl, p.old) = t).new)
               ELSE h.title[t]]])

\* ---------------------------------------------------------------- the program
\* the record kept of a call: the call, its arguments (the WikiText d, the
\* WikiTemplate t, the keys k and k2, the value v, the boolean flag, the element
\* x of a parse tree, the templates tl and the reply of the title normalization),
\* whether t
\* had key k when the call was made, and the outcome (the exception, the object
\* returned, the boolean returned, the list or string returned)
Call(op, d, t, k, k2, v) ==
    [op |-> op, d |-> d, t |-> t, k |-> k, k2 |-> k2, v |-> v, flag |-> FALSE,
     x |-> NoTree, tl |-> <<>>, reply |-> {},
     had |-> (t # None /\ DictHas(params[t], k)),
     err |-> "none", ret |-> None, yes |-> FALSE, out |-> <<>>]

\* what the history holds after a call that is not recorded
Quiet ==
    [op |-> "quiet", d |-> None, t |-> None, k |-> <<>>, k2 |-> <<>>, v |-> OtherVal,
     flag |-> FALSE, x |-> NoTree, tl |-> <<>>, reply |-> {}, had |-> FALSE,
     err |-> "none", ret |-> None,
     yes |-> FALSE, out |-> <<>>]

Record(l) == IF l.op \in lim.watch THEN l ELSE Quiet

\* the values a caller can pass: text, the objects that exist, and a wrong type
Values ==
    {StrVal(s) : s \in StrArgs} \cup {TplVal(t) : t \in 1..ntpls}
        \cup {DocVal(d) : d \in 1..ndocs} \cup {OtherVal}

\* sequences of at most n values
ValueSeqs(n) == UNION {[1..m -> Values] : m \in 0..n}

\* the graph stays within the explored sizes
InBounds(g) ==
    /\ g.ndocs <= lim.docs
    /\ \A d \in 1..g.ndocs :
          /\ Len(g.docs[d]) <= lim.nodes
          /\ \A i \in 1..Len(g.docs[d]) : Len(g.docs[d][i].s) <= lim.text

\* the call returned or raised: its graph becomes the state
Commit(r, l) ==
    /\ InBounds(r.g)
    /\ docs' = r.g.docs
    /\ ndocs' = r.g.ndocs
    /\ parent' = r.g.parent
    /\ params' = r.g.params
    /\ misuse' = r.g.misuse
    /\ last' = Record([l EXCEPT !.err = r.err, !.ret = r.ret])
    /\ UNCHANGED <<ntpls, title, hung, lim, tree>>

\* the call never returns
Hang(l) ==
    /\ hung' = TRUE
    /\ last' = Record([l EXCEPT !.err = "hang"])
    /\ UNCHANGED <<docs, ndocs, ntpls, title, parent, params, misuse, lim, tree>>

\* the state before the first call, for the sizes and the recording given, with
\* no objects
InitHeap(l) ==
    /\ lim = l
    /\ docs = [d \in 1..(l.docs + 1) |-> <<>>]
    /\ ndocs = 0
    /\ ntpls = 0
    /\ title = [t \in 1..l.tpls |-> NoTitle]
    /\ parent = [t \in 1..l.tpls |-> None]
    /\ params = [t \in 1..l.tpls |-> <<>>]
    /\ misuse = FALSE
    /\ hung = FALSE
    /\ last = Quiet

\* ... and no reply to parse
InitWith(l) == InitHeap(l) /\ tree = NoTree

Init ==
    InitWith([docs |-> MaxDocs, tpls |-> MaxTpls, nodes |-> MaxNodes,
              text |-> MaxText, keys |-> MaxKeys, chars |-> MaxChars,
              titles |-> MaxTitles, elems |-> MaxElems, watch |-> AllOps])

InitAppend ==
    InitWith([docs |-> AppDocs, tpls |-> AppTpls, nodes |-> AppNodes,
              text |-> AppText, keys |-> AppKeys, chars |-> AppChars,
              titles |-> AppTitles, elems |-> AppElems, watch |-> {"iadd"}])

InitKeys ==
    InitWith([docs |-> KeyDocs, tpls |-> KeyTpls, nodes |-> KeyNodes,
              text |-> KeyText, keys |-> KeyKeys, chars |-> KeyChars,
              titles |-> KeyTitles, elems |-> KeyElems,
              watch |-> {"remap"}])

InitSet ==
    InitWith([docs |-> SetDocs, tpls |-> SetTpls, nodes |-> SetNodes,
              text |-> SetText, keys |-> SetKeys, chars |-> SetChars,
              titles |-> SetTitles, elems |-> SetElems, watch |-> {"setitem"}])

\* the calls on the parameters of a template
ParamOps == {"getitem", "setitem", "has_key", "pop", "remap", "touch",
             "append_to_params"}

InitParams ==
    InitWith([docs |-> ParDocs, tpls |-> ParTpls, nodes |-> ParNodes,
              text |-> ParText, keys |-> ParKeys, chars |-> ParChars,
              titles |-> ParTitles, elems |-> ParElems, watch |-> ParamOps])

InitAtp ==
    InitWith([docs |-> AtpDocs, tpls |-> AtpTpls, nodes |-> AtpNodes,
              text |-> AtpText, keys |-> AtpKeys, chars |-> AtpChars,
              titles |-> AtpTitles, elems |-> AtpElems,
              watch |-> {"append_to_params"}])

InitText ==
    InitWith([docs |-> TxtDocs, tpls |-> TxtTpls, nodes |-> TxtNodes,
              text |-> TxtText, keys |-> TxtKeys, chars |-> TxtChars,
              titles |-> TxtTitles, elems |-> TxtElems,
              watch |-> {"as_text", "template_as_text"}])

\* The parse trees explored, in the shape of MediaWiki's parsetree XML.
Leaf(tag, text) == El(tag, text, NoneStr, NoneStr, <<>>)
WithTail(x, tail) == [x EXCEPT !.tail = tail]
\* sequences of at most n elements of S
SeqsUpTo(S, n) == UNION {[1..m -> S] : m \in 0..n}

\* {{T}}
PlainTemplate == El("template", NoneStr, NoneStr, NoneStr, <<Leaf("title", <<"T">>)>>)

\* <name index="1"/>, <name>a</name>, <name> a</name>, <name/>
NameEls ==
    {El("name", NoneStr, NoneStr, <<"1">>, <<>>), Leaf("name", <<"a">>),
     Leaf("name", <<" ", "a">>), Leaf("name", NoneStr)}

\* <value/>, <value>x</value>, <value> x{{T}}y</value>
ValueEls ==
    {Leaf("value", NoneStr), Leaf("value", <<"x">>),
     El("value", <<" ", "x">>, NoneStr, NoneStr,
        <<WithTail(PlainTemplate, <<"y">>)>>)}

\* a part: a name, `=` after a name that is written out, and a value; or a part
\* lacking its name or its value
PartEls ==
    {El("part", NoneStr, NoneStr, NoneStr,
        IF Truthy(n.index) THEN <<n, v>> ELSE <<n, Leaf("equals", <<"=">>), v>>) :
         n \in NameEls, v \in ValueEls}
    \cup {El("part", NoneStr, NoneStr, NoneStr, <<Leaf("value", <<"x">>)>>),
          El("part", NoneStr, NoneStr, NoneStr, <<Leaf("name", <<"a">>)>>)}

\* a title: no text, T or " T", then nothing, a comment and text, or a template
TitleEls ==
    {El("title", t, NoneStr, NoneStr, k) :
         t \in {NoneStr, <<"T">>, <<" ", "T">>},
         k \in {<<>>, <<El("comment", <<"c">>, <<"y">>, NoneStr, <<>>)>>,
                <<PlainTemplate>>}}

\* a template: at most one title, then at most PrsParts parts
TemplateEls ==
    {El("template", NoneStr, NoneStr, NoneStr, tt \o ps) :
         tt \in {<<>>} \cup {<<t>> : t \in TitleEls},
         ps \in SeqsUpTo(PartEls, PrsParts)}

\* the children a root is given: templates (plain; with a template in its title
\* and a value holding text and a template; with a part lacking its value), a
\* heading holding text and a template, a comment; each with or without a tail
RootKids ==
    LET part == El("part", NoneStr, NoneStr, NoneStr,
                   <<Leaf("name", <<"a">>), Leaf("equals", <<"=">>),
                     El("value", <<" ", "x">>, NoneStr, NoneStr,
                        <<WithTail(PlainTemplate, <<"y">>)>>)>>)
        kids == {PlainTemplate,
                 El("template", NoneStr, NoneStr, NoneStr,
                    <<El("title", <<"T">>, NoneStr, NoneStr, <<PlainTemplate>>), part>>),
                 El("template", NoneStr, NoneStr, NoneStr,
                    <<Leaf("title", <<"T">>),
                      El("part", NoneStr, NoneStr, NoneStr, <<Leaf("name", <<"a">>)>>)>>),
                 El("h", <<"x">>, NoneStr, NoneStr, <<WithTail(PlainTemplate, <<"y">>)>>),
                 Leaf("comment", <<"c">>)}
    IN  {WithTail(k, tl) : k \in kids, tl \in {NoneStr, <<"y">>}}

\* a root: with or without text, then at most PrsKids children
RootEls ==
    {El("root", t, NoneStr, NoneStr, ks) :
         t \in {NoneStr, <<"x">>}, ks \in SeqsUpTo(RootKids, PrsKids)}

\* what can arrive to be parsed
Replies == RootEls \cup TemplateEls \cup {FetchError}

\* a reply has arrived and nothing has been built yet
InitParse ==
    /\ InitHeap([docs |-> PrsDocs, tpls |-> PrsTpls, nodes |-> PrsNodes,
                 text |-> PrsText, keys |-> PrsKeys, chars |-> PrsChars,
                 titles |-> PrsTitles, elems |-> PrsElems,
                 watch |-> {"parse", "parse_wiki_text", "parse_wiki_template"}])
    /\ tree \in Replies

\* The normalized titles a wiki returns: in the Template namespace, in another
\* namespace, in none, and with the namespace written in lower case.
NormalTitles ==
    {TemplateNs \o <<":", "U">>, NsNames[2] \o <<":", "U">>, <<"U">>,
     <<"t", "e", "m", "p", "l", "a", "t", "e", ":", "U">>}

\* The replies OQuery.normalize_titles can give for the templates tl: old -> new
\* pairs for some of their titles, one pair for a title at most.
NormalizeReplies(tl) ==
    LET olds == {title[tl[i]] : i \in 1..Len(tl)} \ {NoneStr}
    IN  UNION {{{[old |-> o, new |-> f[o]] : o \in S} : f \in [S -> NormalTitles]} :
                  S \in SUBSET olds}

InitNorm ==
    InitWith([docs |-> NrmDocs, tpls |-> NrmTpls, nodes |-> NrmNodes,
              text |-> NrmText, keys |-> NrmKeys, chars |-> NrmChars,
              titles |-> NrmTitles, elems |-> NrmElems, watch |-> {"normalize"}])

InitTrip ==
    InitWith([docs |-> TrpDocs, tpls |-> TrpTpls, nodes |-> TrpNodes,
              text |-> TrpText, keys |-> TrpKeys, chars |-> TrpChars,
              titles |-> TrpTitles, elems |-> TrpElems, watch |-> {"parse_text"}])

\* d = WikiText(*elements)
NewWikiText(elements) ==
    /\ ~hung
    /\ Commit(WikiTextInit(Graph, elements),
              Call("WikiText", ndocs + 1, None, <<>>, <<>>, OtherVal))

\* t = WikiTemplate(title, parent)
NewWikiTemplate(tt, p) ==
    /\ ~hung
    /\ ntpls < lim.tpls
    /\ ntpls' = ntpls + 1
    /\ title' = [title EXCEPT ![ntpls + 1] = tt]
    /\ parent' = [parent EXCEPT ![ntpls + 1] = p]
    /\ params' = [params EXCEPT ![ntpls + 1] = <<>>]
    /\ last' = Record(Call("WikiTemplate", p, ntpls + 1, <<>>, <<>>, OtherVal))
    /\ UNCHANGED <<docs, ndocs, misuse, hung, lim, tree>>

\* d += other
DoIAdd(d, other) ==
    /\ ~hung
    /\ IF Diverges(Graph, d, other)
       THEN Hang(Call("iadd", d, None, <<>>, <<>>, other))
       ELSE Commit(IAdd(Graph, d, other), Call("iadd", d, None, <<>>, <<>>, other))

\* d.all_templates()
DoAllTemplates(d) ==
    /\ ~hung
    /\ LET r == AllTemplates(Graph, d)
       IN  last' = Record([Call("all_templates", d, None, <<>>, <<>>, OtherVal)
                              EXCEPT !.err = r.err, !.out = r.out])
    /\ UNCHANGED <<docs, ndocs, ntpls, title, parent, params, misuse, hung, lim, tree>>

\* d.as_text(trim); str(d) is d.as_text(True)
DoAsText(d, trim) ==
    /\ ~hung
    /\ last' = IF "as_text" \in lim.watch
               THEN LET r == WikiTextAsText(Heap, d, trim, 0)
                    IN  [Call("as_text", d, None, <<>>, <<>>, OtherVal)
                            EXCEPT !.flag = trim, !.err = r.err, !.out = r.s]
               ELSE Quiet
    /\ UNCHANGED <<docs, ndocs, ntpls, title, parent, params, misuse, hung, lim, tree>>

\* t.as_text(indent); str(t) is t.as_text()
DoTemplateAsText(t, indent) ==
    /\ ~hung
    /\ last' = IF "template_as_text" \in lim.watch
               THEN LET r == TemplateAsText(Heap, t, indent, 1)
                    IN  [Call("template_as_text", None, t, <<>>, <<>>, OtherVal)
                            EXCEPT !.flag = indent, !.err = r.err, !.out = r.s]
               ELSE Quiet
    /\ UNCHANGED <<docs, ndocs, ntpls, title, parent, params, misuse, hung, lim, tree>>

\* t[key]
DoGetItem(t, key) ==
    /\ ~hung
    /\ Commit(GetItem(Graph, t, key), Call("getitem", None, t, key, <<>>, OtherVal))

\* t[key] = value
DoSetItem(t, key, value) ==
    /\ ~hung
    /\ Commit(SetItem(Graph, t, key, value), Call("setitem", None, t, key, <<>>, value))

\* t.set_param(k, v), which is `self[k] = v` and is recorded as that call
DoSetParam(t, k, v) ==
    /\ ~hung
    /\ Commit(SetParam(Graph, t, k, v), Call("setitem", None, t, k, <<>>, v))

\* t.has_key(key, empty_ok)
DoHasKey(t, key, empty_ok) ==
    /\ ~hung
    /\ last' = Record([Call("has_key", None, t, key, <<>>, OtherVal)
                          EXCEPT !.flag = empty_ok,
                                 !.yes = HasKey(Graph, t, key, empty_ok)])
    /\ UNCHANGED <<docs, ndocs, ntpls, title, parent, params, misuse, hung, lim, tree>>

\* t.pop(k)
DoPop(t, k) ==
    /\ ~hung
    /\ Commit(Pop(Graph, t, k), Call("pop", None, t, k, <<>>, OtherVal))

\* t.drop()
DoDrop(t) ==
    /\ ~hung
    /\ Commit(Drop(Graph, t), Call("drop", parent[t], t, <<>>, <<>>, OtherVal))

\* t.remap(old_key, new_key)
DoRemap(t, old_key, new_key) ==
    /\ ~hung
    /\ Commit(Remap(Graph, t, old_key, new_key),
              Call("remap", None, t, old_key, new_key, OtherVal))

\* t.touch(k)
DoTouch(t, k) ==
    /\ ~hung
    /\ Commit(Touch(Graph, t, k), Call("touch", None, t, k, <<>>, OtherVal))

\* t.append_to_params(k, e)
DoAppendToParams(t, k, e) ==
    /\ ~hung
    /\ IF Contains(Graph, t, k) /\ Diverges(Graph, DictGet(params[t], k), e)
       THEN Hang(Call("append_to_params", None, t, k, <<>>, e))
       ELSE Commit(AppendToParams(Graph, t, k, e),
                   Call("append_to_params", None, t, k, <<>>, e))

\* the parser returned or raised: what it built becomes the state, and the reply
\* is used up
CommitParse(r, l) ==
    /\ InBounds(r.g)
    /\ r.g.ntpls <= lim.tpls
    /\ docs' = r.g.docs
    /\ ndocs' = r.g.ndocs
    /\ ntpls' = r.g.ntpls
    /\ title' = r.g.title
    /\ parent' = r.g.parent
    /\ params' = r.g.params
    /\ misuse' = r.g.misuse
    /\ last' = Record([l EXCEPT !.x = tree, !.err = r.err, !.ret = r.ret])
    /\ tree' = NoTree
    /\ UNCHANGED <<hung, lim>>

\* an exception leaves the caller with none of the objects built
Discard(h, r) == IF r.err # "none" THEN Raise(h, r.err) ELSE r

\* WParser._parse_wiki_text(tree)
DoParseWikiText ==
    /\ ~hung
    /\ tree \notin {NoTree, FetchError}
    /\ CommitParse(Discard(Heap, ParseWikiText(Heap, tree, TRUE)),
                   Call("parse_wiki_text", None, None, <<>>, <<>>, OtherVal))

\* WParser._parse_wiki_template(tree), called for `template` elements
DoParseWikiTemplate ==
    /\ ~hung
    /\ tree.tag = "template"
    /\ CommitParse(Discard(Heap, ParseWikiTemplate(Heap, tree)),
                   Call("parse_wiki_template", None, None, <<>>, <<>>, OtherVal))

\* WParser.parse(wiki, title, text)
DoParse(given) ==
    /\ ~hung
    /\ tree # NoTree
    /\ CommitParse(Parse(Heap, given, tree),
                   [Call("parse", None, None, <<>>, <<>>, OtherVal)
                       EXCEPT !.flag = given])

Next ==
    \/ \E es \in ValueSeqs(lim.elems) : NewWikiText(es)
    \/ \E tt \in TitleArgs, p \in {None} \cup (1..ndocs) : NewWikiTemplate(tt, p)
    \/ \E d \in 1..ndocs, v \in Values : DoIAdd(d, v)
    \/ \E d \in 1..ndocs : DoAllTemplates(d)
    \/ \E d \in 1..ndocs, b \in BOOLEAN : DoAsText(d, b)
    \/ \E t \in 1..ntpls, b \in BOOLEAN : DoTemplateAsText(t, b)
    \/ \E t \in 1..ntpls, k \in KeyArgs : DoGetItem(t, k)
    \/ \E t \in 1..ntpls, k \in KeyArgs, v \in Values : DoSetItem(t, k, v)
    \/ \E t \in 1..ntpls, k \in KeyArgs, v \in Values : DoSetParam(t, k, v)
    \/ \E t \in 1..ntpls, k \in KeyArgs, b \in BOOLEAN : DoHasKey(t, k, b)
    \/ \E t \in 1..ntpls, k \in KeyArgs : DoPop(t, k)
    \/ \E t \in 1..ntpls : DoDrop(t)
    \/ \E t \in 1..ntpls, k \in KeyArgs, k2 \in KeyArgs : DoRemap(t, k, k2)
    \/ \E t \in 1..ntpls, k \in KeyArgs : DoTouch(t, k)
    \/ \E t \in 1..ntpls, k \in KeyArgs, v \in Values : DoAppendToParams(t, k, v)

Spec == Init /\ [][Next]_vars
SpecAppend == InitAppend /\ [][Next]_vars
SpecKeys == InitKeys /\ [][Next]_vars
SpecSet == InitSet /\ [][Next]_vars
SpecParams == InitParams /\ [][Next]_vars
SpecAtp == InitAtp /\ [][Next]_vars
SpecText == InitText /\ [][Next]_vars

\* WikiTemplate.normalize(wiki, *tl)
DoNormalize(tl, reply) ==
    /\ ~hung
    /\ LET r == Normalize(Heap, tl, reply)
       IN  /\ title' = r.g.title
           /\ last' = Record([Call("normalize", None, None, <<>>, <<>>, OtherVal)
                                 EXCEPT !.tl = tl, !.reply = reply, !.err = r.err])
    /\ UNCHANGED <<docs, ndocs, ntpls, parent, params, misuse, hung, lim, tree>>

\* templates made and their titles normalized against a wiki
NextNorm ==
    \/ \E tt \in TitleArgs : NewWikiTemplate(tt, None)
    \/ \E tl \in SeqsUpTo(1..ntpls, NrmGiven) :
           \E reply \in NormalizeReplies(tl) : DoNormalize(tl, reply)

SpecNorm == InitNorm /\ [][NextNorm]_vars

\* the objects that parsing the tree of the text s builds stay within the
\* explored sizes: a Template for each {{, and a Document for the root, for each
\* title and for each value
Room(s) ==
    LET opens == Cardinality({i \in 1..Len(s) : OpensAt(s, i)})
        bars  == Cardinality({i \in 1..Len(s) : s[i] = "|"})
    IN  /\ ntpls + opens <= lim.tpls
        /\ ndocs + 1 + opens + bars <= lim.docs

\* the parser returned or raised on a text: what it built becomes the state
CommitText(r, l) ==
    /\ InBounds(r.g)
    /\ r.g.ntpls <= lim.tpls
    /\ docs' = r.g.docs
    /\ ndocs' = r.g.ndocs
    /\ ntpls' = r.g.ntpls
    /\ title' = r.g.title
    /\ parent' = r.g.parent
    /\ params' = r.g.params
    /\ misuse' = r.g.misuse
    /\ last' = Record([l EXCEPT !.err = r.err, !.ret = r.ret])
    /\ UNCHANGED <<hung, lim, tree>>

\* the tree the wiki answers with for the serialized text s, none when
\* serializing raised
TreeOf(s) == IF s.err = "none" THEN ParseTree(s.s) ELSE NoTree

\* WParser.parse(wiki, text=s) for the outcome s of serializing; an empty text
\* counts as no text given
ParseText(h, s) ==
    IF s.err = "none" THEN Parse(h, s.s # <<>>, TreeOf(s)) ELSE Raise(h, s.err)

\* WParser.parse(wiki, text=d.as_text(trim)), the wiki answering with the parse
\* tree of that text
DoParseText(d, trim) ==
    /\ ~hung
    /\ WikiTextAsText(Heap, d, trim, 0).err = "none"
          => Room(WikiTextAsText(Heap, d, trim, 0).s)
    /\ CommitText(ParseText(Heap, WikiTextAsText(Heap, d, trim, 0)),
                  [Call("parse_text", d, None, <<>>, <<>>, OtherVal)
                      EXCEPT !.flag = trim,
                             !.out = WikiTextAsText(Heap, d, trim, 0).s,
                             !.x = TreeOf(WikiTextAsText(Heap, d, trim, 0))])

\* the objects built by hand stay few enough to be parsed back
Built == ndocs' <= TrpBuiltDocs /\ ntpls' <= TrpBuiltTpls

\* Documents and Templates built, then serialized and parsed back
NextTrip ==
    \/ \E es \in ValueSeqs(lim.elems) : NewWikiText(es) /\ Built
    \/ \E tt \in TitleArgs, p \in {None} \cup (1..ndocs) :
           NewWikiTemplate(tt, p) /\ Built
    \/ \E d \in 1..ndocs, v \in Values : DoIAdd(d, v) /\ Built
    \/ \E t \in 1..ntpls, k \in KeyArgs, v \in Values : DoSetItem(t, k, v) /\ Built
    \/ \E d \in 1..ndocs, b \in BOOLEAN : DoParseText(d, b)

SpecTrip == InitTrip /\ [][NextTrip]_vars

\* the parser at work on one reply
NextParse ==
    \/ DoParseWikiText
    \/ DoParseWikiTemplate
    \/ \E given \in BOOLEAN : DoParse(given)

SpecParse == InitParse /\ [][NextParse]_vars

\* ---------------------------------------------------------------- properties
IsText(n) == n.ty = "str"

\* how often template t occurs in the node sequence l
Count(l, t) == Cardinality({i \in 1..Len(l) : l[i] = TplVal(t)})

\* the parts of the graph a caller can observe
Unchanged == UNCHANGED <<docs, ndocs, ntpls, title, parent, params>>

\* C1: every Document's node sequence holds no empty text run and no two adjacent
\* text runs.
C1_NoEmptyNoAdjacentText ==
    \A d \in 1..ndocs :
        /\ \A i \in 1..Len(docs[d]) : IsText(docs[d][i]) => docs[d][i].s # <<>>
        /\ \A i \in 1..(Len(docs[d]) - 1) :
              ~(IsText(docs[d][i]) /\ IsText(docs[d][i + 1]))

\* C2: as long as no Template was inserted while it already had a parent, each
\* Template's back-reference is absent or a Document holding it exactly once, and
\* no other Document holds it.
C2_ParentConsistent ==
    ~misuse =>
        \A t \in 1..ntpls :
            /\ parent[t] # None => Count(docs[parent[t]], t) = 1
            /\ \A d \in 1..ndocs : d # parent[t] => Count(docs[d], t) = 0

\* C3: a call that mutates a Template's parameter mapping leaves that Template's
\* back-reference as it was.
C3_ParamOpsKeepParent ==
    [][last'.op \in {"setitem", "pop", "remap", "touch", "append_to_params"}
          => parent'[last'.t] = parent[last'.t]]_vars

\* C4: a Document or Template call that raises leaves the whole graph as it was.
C4_FailureChangesNothing ==
    [][(/\ last'.op \in {"iadd", "getitem", "setitem", "remap", "touch",
                         "append_to_params", "drop"}
        /\ last'.err \notin {"none", "hang"})
          => Unchanged]_vars

\* the direct child Templates of t: the Templates of its parameter Documents, in
\* parameter order
RECURSIVE ChildTemplates(_)
ChildTemplates(ps) ==
    IF ps = <<>> THEN <<>>
    ELSE Templates(docs[Head(ps).d]) \o ChildTemplates(Tail(ps))

\* the order C5 describes: pop the Template pushed last, emit it, push its
\* children (n bounds the walk)
RECURSIVE LifoOrder(_, _)
LifoOrder(stack, n) ==
    IF stack = <<>> \/ n = 0 THEN <<>>
    ELSE LET curr == stack[Len(stack)]
         IN  <<curr>> \o LifoOrder(SubSeq(stack, 1, Len(stack) - 1)
                                       \o ChildTemplates(params[curr]), n - 1)

\* C5: all_templates() returns the Templates reachable from the Document in the
\* order of the LIFO-stack walk seeded with its top-level Templates.
C5_AllTemplatesLifo ==
    last.op = "all_templates" =>
        /\ last.err = "none"
        /\ last.out = LifoOrder(Templates(docs[last.d]), lim.tpls + 1)

\* the keys of a dict without key k, order kept
RECURSIVE KeysWithout(_, _)
KeysWithout(ks, k) ==
    IF ks = <<>> THEN <<>>
    ELSE IF Head(ks) = k THEN KeysWithout(Tail(ks), k)
    ELSE <<Head(ks)>> \o KeysWithout(Tail(ks), k)

\* C6 as stated: remap(old, new) with old absent changes nothing; with old present
\* old is gone (unless new = old), new maps to old's Document, and new is the last
\* key, whichever string new is.
C6_RemapNewIsLast ==
    [][(last'.op = "remap" /\ IsStr(last'.k2)) =>
          LET t == last'.t
              old == last'.k
              new == last'.k2
          IN  IF ~DictHas(params[t], old)
              THEN Unchanged
              ELSE /\ new # old => ~DictHas(params'[t], old)
                   /\ DictHas(params'[t], new)
                   /\ DictGet(params'[t], new) = DictGet(params[t], old)
                   /\ params'[t][Len(params'[t])].k = new]_vars

\* C6 amended: as C6, but new is the last key only when it was not already
\* another key of the Template; a key that was already present keeps its place
\* among the keys that remain.
C6_RemapAmended ==
    [][(last'.op = "remap" /\ IsStr(last'.k2)) =>
          LET t == last'.t
              old == last'.k
              new == last'.k2
              rest == KeysWithout(DictKeys(params[t]), old)
          IN  IF ~DictHas(params[t], old)
              THEN Unchanged
              ELSE /\ last'.err = "none"
                   /\ new # old => ~DictHas(params'[t], old)
                   /\ DictHas(params'[t], new)
                   /\ DictGet(params'[t], new) = DictGet(params[t], old)
                   /\ DictKeys(params'[t]) =
                         IF new # old /\ DictHas(params[t], new)
                         THEN rest
                         ELSE Append(rest, new)
                   /\ \A i \in 1..Len(params'[t]) :
                         params'[t][i].k # new =>
                             params'[t][i].d = DictGet(params[t], params'[t][i].k)
                   /\ UNCHANGED <<docs, ndocs, ntpls, title, parent>>]_vars

\* a rename onto a key that was already present has acted: the new key is there,
\* maps to a Document, and is not the last key
C6_Witness ==
    /\ last.op = "remap"
    /\ last.err = "none"
    /\ last.had
    /\ last.k # last.k2
    /\ Len(params[last.t]) >= 2
    /\ DictHas(params[last.t], last.k2)
    /\ params[last.t][Len(params[last.t])].k # last.k2

\* C7: drop() on a Template with a back-reference removes every occurrence of it
\* from that Document and clears the back-reference; without a back-reference it
\* changes nothing (so a second drop() changes nothing).
C7_DropDetaches ==
    [][last'.op = "drop" =>
          LET t == last'.t
          IN  IF parent[t] # None
              THEN /\ Count(docs'[parent[t]], t) = 0
                   /\ parent'[t] = None
              ELSE Unchanged]_vars

\* a node sequence as the sequence of its characters and Templates
RECURSIVE Flat(_)
Flat(l) ==
    IF l = <<>> THEN <<>>
    ELSE (IF IsText(Head(l))
          THEN [i \in 1..Len(Head(l).s) |-> [c |-> Head(l).s[i], t |-> None]]
          ELSE <<[c |-> "", t |-> Head(l).id]>>)
         \o Flat(Tail(l))

\* the Documents other than d, and the parameter mappings, are as they were
OnlyDocChanged(d) ==
    /\ \A o \in 1..ndocs : o # d => docs'[o] = docs[o]
    /\ UNCHANGED <<ndocs, ntpls, title, params>>

\* C8: d += x.  Empty text: nothing changes.  Other text: joined onto the last
\* node when that is text (node count kept), else a new last node.  A Template:
\* the new last node, its back-reference d.  Another Document o: its nodes are
\* appended in order by the same rules (same characters and Templates in the same
\* order, text joined wherever it follows text, no nesting), o itself unchanged.
C8_Append ==
    [][(last'.op = "iadd" /\ last'.err = "none") =>
          LET d == last'.d
              x == last'.v
              L == docs[d]
              M == docs'[d]
          IN  /\ OnlyDocChanged(d)
              /\ \A i \in 1..Len(M) : M[i].ty \in {"str", "tpl"}
              /\ x.ty = "str" /\ x.s = <<>> => M = L /\ parent' = parent
              /\ x.ty = "str" /\ x.s # <<>> =>
                    /\ parent' = parent
                    /\ IF L # <<>> /\ IsText(L[Len(L)])
                       THEN /\ Len(M) = Len(L)
                            /\ SubSeq(M, 1, Len(L) - 1) = SubSeq(L, 1, Len(L) - 1)
                            /\ M[Len(M)] = StrVal(L[Len(L)].s \o x.s)
                       ELSE M = Append(L, StrVal(x.s))
              /\ x.ty = "tpl" =>
                    /\ M = Append(L, TplVal(x.id))
                    /\ parent' = [parent EXCEPT ![x.id] = d]
              /\ x.ty = "doc" /\ x.id # d =>
                    /\ Flat(M) = Flat(L) \o Flat(docs[x.id])
                    /\ SubSeq(M, 1, Len(L) - 1) = SubSeq(L, 1, Len(L) - 1)
                    /\ Len(M) >= Len(L)
                    /\ \A i \in 1..(Len(M) - 1) :
                          (i >= Len(L) /\ i >= 1) => ~(IsText(M[i]) /\ IsText(M[i + 1]))
                    /\ \A t \in 1..ntpls :
                          parent'[t] = IF Count(docs[x.id], t) > 0 THEN d ELSE parent[t]]_vars

\* another Document holding text and a Template has been appended, and its first
\* text was joined onto the text the target ended with
C8_Witness ==
    /\ last.op = "iadd"
    /\ last.err = "none"
    /\ last.v.ty = "doc"
    /\ last.v.id # last.d
    /\ Len(docs[last.v.id]) = 2
    /\ IsText(docs[last.v.id][1])
    /\ ~IsText(docs[last.v.id][2])
    /\ Len(docs[last.d]) = 2
    /\ IsText(docs[last.d][1])
    /\ Len(docs[last.d][1].s) = 2
    /\ docs[last.d][2] = docs[last.v.id][2]
    /\ parent[docs[last.d][2].id] = last.d

\* C9: d += x with x neither text, Template nor Document raises TypeError, and so
\* does t[key] = value with a key that is no string or such a value; nothing has
\* been added when it is raised.
C9_TypeErrors ==
    [][/\ (last'.op = "iadd" /\ last'.v.ty = "other")
             => (last'.err = "TypeError" /\ Unchanged)
       /\ (last'.op = "setitem" /\ (~IsStr(last'.k) \/ last'.v.ty = "other"))
             => (last'.err = "TypeError" /\ Unchanged)]_vars

\* a Set with a key that is no string and a value of the right type was refused
\* on a Template that has parameters
C9_Witness ==
    /\ last.op = "setitem"
    /\ ~IsStr(last.k)
    /\ last.v.ty = "str"
    /\ last.err = "TypeError"
    /\ params[last.t] # <<>>

\* the order of keys after t[k] = v: k keeps its place, or goes last if new
KeysAfterSet(t, k) ==
    DictKeys(params'[t]) =
        IF DictHas(params[t], k) THEN DictKeys(params[t])
        ELSE Append(DictKeys(params[t]), k)

\* C10 as stated: t[k] = v with a string k maps k to v itself when v is a
\* Document, and to a fresh Document of exactly one node, v, when v is text or a
\* Template; an existing key keeps its place, a new key goes last.
C10_SetWrapsInOneNode ==
    [][(last'.op = "setitem" /\ IsStr(last'.k) /\ last'.v.ty # "other") =>
          LET t == last'.t
              k == last'.k
              v == last'.v
          IN  /\ KeysAfterSet(t, k)
              /\ v.ty = "doc" => DictGet(params'[t], k) = v.id
              /\ v.ty \in {"str", "tpl"} =>
                    /\ ndocs' = ndocs + 1
                    /\ DictGet(params'[t], k) = ndocs'
                    /\ docs'[ndocs'] = <<v>>]_vars

\* C10 amended: as C10, but the fresh Document has one node only for non-empty
\* text and for a Template; for empty text it is a fresh empty Document.
C10_SetAmended ==
    [][(last'.op = "setitem" /\ IsStr(last'.k) /\ last'.v.ty # "other") =>
          LET t == last'.t
              k == last'.k
              v == last'.v
          IN  /\ last'.err = "none"
              /\ KeysAfterSet(t, k)
              /\ \A i \in 1..Len(params'[t]) :
                    params'[t][i].k # k => params'[t][i] \in
                        {params[t][j] : j \in 1..Len(params[t])}
              /\ v.ty = "doc" =>
                    /\ DictGet(params'[t], k) = v.id
                    /\ UNCHANGED <<docs, ndocs, parent>>
              /\ v.ty \in {"str", "tpl"} =>
                    /\ ndocs' = ndocs + 1
                    /\ DictGet(params'[t], k) = ndocs'
                    /\ docs'[ndocs'] = IF v = StrVal(<<>>) THEN <<>> ELSE <<v>>
                    /\ \A d \in 1..ndocs : docs'[d] = docs[d]]_vars

\* empty text was assigned to a key that was already there and is not the last
\* one: the key is still in its place and maps to an empty Document
C10_Witness ==
    /\ last.op = "setitem"
    /\ last.err = "none"
    /\ last.had
    /\ last.v = StrVal(<<>>)
    /\ Len(params[last.t]) >= 2
    /\ params[last.t][1].k = last.k
    /\ docs[params[last.t][1].d] = <<>>

\* C11: t[key] returns the Document mapped to key and changes nothing, and raises
\* KeyError exactly when key is absent.  pop and has_key never raise: pop removes
\* a present key and returns its Document, and returns None and changes nothing
\* for an absent key; has_key is true exactly when the key is present and, when
\* empty_ok is False, its Document is non-empty.
C11_GetPopHasKey ==
    [][LET l == last'
           ps == params[l.t]
       IN  /\ l.op = "getitem" =>
                 /\ Unchanged
                 /\ IF DictHas(ps, l.k)
                    THEN l.err = "none" /\ l.ret = DictGet(ps, l.k)
                    ELSE l.err = "KeyError"
           /\ l.op = "pop" =>
                 /\ l.err = "none"
                 /\ IF DictHas(ps, l.k)
                    THEN /\ l.ret = DictGet(ps, l.k)
                         /\ params' = [params EXCEPT ![l.t] =
                                          SelectSeq(ps, LAMBDA p : p.k # l.k)]
                         /\ UNCHANGED <<docs, ndocs, ntpls, title, parent>>
                    ELSE l.ret = None /\ Unchanged
           /\ l.op = "has_key" =>
                 /\ l.err = "none"
                 /\ Unchanged
                 /\ l.yes <=> /\ DictHas(ps, l.k)
                              /\ ~l.flag => docs[DictGet(ps, l.k)] # <<>>]_vars

\* a pop of a present key has returned its Document and the key is gone
C11_Witness ==
    /\ last.op = "pop"
    /\ last.had
    /\ last.ret # None
    /\ ~DictHas(params[last.t], last.k)

\* the recorded call l set key k of template t: a Set, or a touch, an
\* append_to_params or a rename to k acting as one
SetBy(l, t, k) ==
    /\ l.t = t
    /\ l.err = "none"
    /\ \/ l.op \in {"setitem", "touch", "append_to_params"} /\ l.k = k
       \/ l.op = "remap" /\ l.had /\ l.k2 = k

\* the recorded call l popped key k of template t or renamed it away
RemovedBy(l, t, k) ==
    /\ l.t = t
    /\ l.err = "none"
    /\ l.k = k
    /\ l.op = "pop" \/ (l.op = "remap" /\ l.had)

\* C12: `k in t` is true exactly when an earlier operation set k and no later one
\* popped k or renamed k away.  Said of each call: afterwards k is in t exactly
\* when the call set k, or k was in t before and the call did not remove it.
C12_Containment ==
    [][\A t \in 1..ntpls : \A k \in KeyArgs :
          DictHas(params'[t], k) <=>
              \/ SetBy(last', t, k)
              \/ DictHas(params[t], k) /\ ~RemovedBy(last', t, k)]_vars

\* the object graph after the step
GraphAfter == [docs |-> docs', ndocs |-> ndocs', parent |-> parent',
               params |-> params', misuse |-> misuse']

\* C13: touch(k) with k absent adds k, last in iteration order, mapped to an empty
\* Document, so that a following t[k] yields an empty Document; touch(k) with k
\* present leaves the mapped Document, its contents and the key order unchanged.
C13_Touch ==
    [][LET l == last'
           ps == params[l.t]
       IN  (l.op = "touch" /\ IsStr(l.k)) =>
               /\ l.err = "none"
               /\ IF DictHas(ps, l.k)
                  THEN Unchanged
                  ELSE /\ params' = [params EXCEPT ![l.t] =
                                        Append(ps, [k |-> l.k, d |-> ndocs + 1])]
                       /\ ndocs' = ndocs + 1
                       /\ docs' = [docs EXCEPT ![ndocs + 1] = <<>>]
                       /\ UNCHANGED <<ntpls, title, parent>>
                       /\ LET r == GetItem(GraphAfter, l.t, l.k)
                          IN  r.err = "none" /\ docs'[r.ret] = <<>>]_vars

\* a touch has added a second key, last, with an empty Document
C13_Witness ==
    /\ last.op = "touch"
    /\ ~last.had
    /\ last.err = "none"
    /\ Len(params[last.t]) = 2
    /\ params[last.t][2].k = last.k
    /\ docs[params[last.t][2].d] = <<>>

\* C14: append_to_params(k, e).  With k present, e is appended to the Document
\* mapped to k by the rules of `+=` on a Document: the mapping keeps the same
\* Document at the same key position, and text is joined onto a trailing text
\* run.  With k absent the effect is exactly that of t[k] = e.
C14_AppendToParams ==
    [][LET l == last'
           ps == params[l.t]
       IN  (l.op = "append_to_params" /\ l.err # "hang") =>
               IF DictHas(ps, l.k)
               THEN LET d == DictGet(ps, l.k)
                        r == IAdd(Graph, d, l.v)
                        L == docs[d]
                        M == docs'[d]
                    IN  /\ l.err = r.err
                        /\ params' = params
                        /\ docs' = r.g.docs
                        /\ parent' = r.g.parent
                        /\ UNCHANGED <<ndocs, ntpls, title>>
                        /\ (l.v.ty = "str" /\ l.v.s # <<>> /\ L # <<>>
                                /\ IsText(L[Len(L)])) =>
                              /\ Len(M) = Len(L)
                              /\ M[Len(M)] = StrVal(L[Len(L)].s \o l.v.s)
               ELSE LET r == SetItem(Graph, l.t, l.k, l.v)
                    IN  /\ l.err = r.err
                        /\ params' = r.g.params
                        /\ docs' = r.g.docs
                        /\ ndocs' = r.g.ndocs
                        /\ parent' = r.g.parent
                        /\ UNCHANGED <<ntpls, title>>]_vars

\* text was appended to a parameter whose Document ended with text: the Document
\* still has one node, now of two characters
C14_Witness ==
    /\ last.op = "append_to_params"
    /\ last.had
    /\ last.err = "none"
    /\ last.v.ty = "str"
    /\ Len(last.v.s) = 1
    /\ Len(docs[DictGet(params[last.t], last.k)]) = 1
    /\ Len(docs[DictGet(params[last.t], last.k)][1].s) = 2

\* A Document written out with no whitespace removed anywhere: its nodes in
\* order, a Template as `{{`, its title, `|key=value` for each parameter in
\* order with the value written out the same way, and `}}`.  (Read only for a
\* Document whose serialization returned, so the descent ends.)
RECURSIVE Untrimmed(_, _)
RECURSIVE UntrimmedParams(_, _, _)
UntrimmedParams(ps, i, fuel) ==
    IF i > Len(ps) \/ fuel = 0 THEN <<>>
    ELSE <<"|">> \o ps[i].k \o <<"=">> \o Untrimmed(docs[ps[i].d], fuel - 1)
             \o UntrimmedParams(ps, i + 1, fuel)
Untrimmed(l, fuel) ==
    IF l = <<>> THEN <<>>
    ELSE (IF IsText(Head(l)) THEN Head(l).s
          ELSE <<"{", "{">> \o TitleText(title[Head(l).id])
                   \o UntrimmedParams(params[Head(l).id], 1, fuel)
                   \o <<"}", "}">>)
         \o Untrimmed(Tail(l), fuel)

\* C15: serializing a Document yields its nodes' renderings in order; trim
\* removes leading and trailing whitespace of the final result only, so without
\* trim no whitespace of any text run at any depth is removed, that of text
\* inside Template parameter values included.
C15_SerializeDocument ==
    (last.op = "as_text" /\ last.err = "none") =>
        last.out = IF last.flag
                   THEN Strip(Untrimmed(docs[last.d], ntpls + 1))
                   ELSE Untrimmed(docs[last.d], ntpls + 1)

\* one parameter written as a segment: `|`, after a newline in pretty mode, the
\* key, `=`, and the value's Document as a string
Segment(p, pretty) ==
    (IF pretty THEN <<"\n">> ELSE <<>>) \o <<"|">> \o p.k \o <<"=">>
        \o WikiTextAsText(Heap, p.d, TRUE, 1).s

RECURSIVE Segments(_, _)
Segments(ps, pretty) ==
    IF ps = <<>> THEN <<>> ELSE Segment(Head(ps), pretty) \o Segments(Tail(ps), pretty)

\* C16: serializing a Template yields `{{`, the title, one `|key=value` segment
\* per parameter in insertion order, and `}}`; pretty mode differs only by a
\* newline before each `|` and one newline before the closing `}}`.
C16_SerializeTemplate ==
    (last.op = "template_as_text" /\ last.err = "none") =>
        last.out = <<"{", "{">> \o TitleText(title[last.t])
                       \o Segments(params[last.t], last.flag)
                       \o (IF last.flag THEN <<"\n">> ELSE <<>>) \o <<"}", "}">>

\* a Template titled T with two parameters, one of them with a non-empty value,
\* was serialized in pretty mode
C16_Witness ==
    /\ last.op = "template_as_text"
    /\ last.err = "none"
    /\ last.flag
    /\ title[last.t] = <<"T">>
    /\ Len(params[last.t]) = 2
    /\ \E i \in 1..2 : docs[params[last.t][i].d] # <<>>
    /\ Len(last.out) > 10

\* the heap with no objects
NoObjects ==
    [docs |-> [d \in 1..(lim.docs + 1) |-> <<>>], ndocs |-> 0, ntpls |-> 0,
     title |-> [t \in 1..lim.tpls |-> NoTitle],
     parent |-> [t \in 1..lim.tpls |-> None],
     params |-> [t \in 1..lim.tpls |-> <<>>], misuse |-> FALSE]

\* an optional str as characters of a Document
Chars(s) == IF Truthy(s) THEN [i \in 1..Len(s) |-> [c |-> s[i], t |-> None]] ELSE <<>>

\* a node sequence as its characters and, for each Template, a mark
Shape(l) == [i \in 1..Len(Flat(l)) |->
                IF Flat(l)[i].t = None THEN Flat(l)[i] ELSE [c |-> "", t |-> 1]]

\* What the flattened parse of element x holds: its text, then for each child a
\* mark for a `template` child or what the flattened parse of the child holds,
\* and the tail of the child.
RECURSIVE Flattened(_)
RECURSIVE FlattenedKids(_)
FlattenedKids(kids) ==
    IF kids = <<>> THEN <<>>
    ELSE (IF Head(kids).tag = "template" THEN <<[c |-> "", t |-> 1]>>
          ELSE Flattened(Head(kids)))
         \o Chars(Head(kids).tail) \o FlattenedKids(Tail(kids))
Flattened(x) == Chars(x.text) \o FlattenedKids(x.kids)

\* the `template` elements whose Templates the flattened parse of x holds
RECURSIVE TemplatesIn(_)
TemplatesIn(kids) ==
    IF kids = <<>> THEN <<>>
    ELSE (IF Head(kids).tag = "template" THEN <<Head(kids)>>
          ELSE TemplatesIn(Head(kids).kids))
         \o TemplatesIn(Tail(kids))

\* the Template parsed from element x alone, as a string
ParsedAlone(x) ==
    LET r == ParseWikiTemplate(NoObjects, x)
    IN  TemplateAsText(r.g, r.ret, FALSE, 1).s

\* C17: parsing an element in flatten mode yields a Document holding the
\* element's text, then for each child in order the parsed Template (a `template`
\* child) or the flattened parse of the child (any other tag), each followed by
\* the child's tail.
C17_ParseFlatten ==
    (last.op = "parse_wiki_text" /\ last.err = "none") =>
        LET l == docs[last.ret]
            ts == Templates(l)
            es == TemplatesIn(last.x.kids)
        IN  /\ Shape(l) = Flattened(last.x)
            /\ Len(ts) = Len(es)
            /\ \A i \in 1..Len(ts) :
                  TemplateAsText(Heap, ts[i], FALSE, 1).s = ParsedAlone(es[i])

\* a root with text, a template with a tail and a heading holding a template was
\* parsed: the Document holds two Templates and serializes to x{{T}}yx{{T}}y
C17_Witness ==
    /\ last.op = "parse_wiki_text"
    /\ last.err = "none"
    /\ last.x.tag = "root"
    /\ Truthy(last.x.text)
    /\ Len(last.x.kids) = 2
    /\ last.x.kids[1] = WithTail(PlainTemplate, <<"y">>)
    /\ last.x.kids[2].tag = "h"
    /\ Len(Templates(docs[last.ret])) = 2
    /\ WikiTextAsText(Heap, last.ret, FALSE, 0).s =
          <<"x", "{", "{", "T", "}", "}", "y", "x", "{", "{", "T", "}", "}", "y">>

\* the parts of a `template` element, and the name and the value of a part
Parts(x) == SelectSeq(x.kids, LAMBDA k : k.tag = "part")
HasKid(p, tag) == \E i \in 1..Len(p.kids) : p.kids[i].tag = tag
Kid(p, tag) == p.kids[CHOOSE i \in 1..Len(p.kids) : p.kids[i].tag = tag]
WellFormed(p) == HasKid(p, "name") /\ HasKid(p, "value")

\* the key of a well-formed part as C18 has it: the index attribute of the name
\* when there is one, else the text of the name
NameKey(p) ==
    IF Truthy(Kid(p, "name").index) THEN Kid(p, "name").index
    ELSE Kid(p, "name").text

\* the parameters after a Set of [keys[i] |-> the value element of parts[i]] for
\* each of the parts in order
RECURSIVE SetEach(_, _, _)
SetEach(ps, parts, keys) ==
    IF parts = <<>> THEN ps
    ELSE SetEach(DictSet(ps, Head(keys), Kid(Head(parts), "value")),
                 Tail(parts), Tail(keys))

\* C18: parsing a `template` element assigns one parameter with Set for each
\* `part` child in order: the key is the index attribute of the part's name when
\* it has one and else the name's text, the value is the flattened parse of the
\* part's `value` child; every part with a name and a value yields a string key
\* and a Document value.
C18_ParseParts ==
    (last.op = "parse_wiki_template"
        /\ \A i \in 1..Len(Parts(last.x)) : WellFormed(Parts(last.x)[i])) =>
        LET parts == Parts(last.x)
            want == SetEach(<<>>, parts, [i \in 1..Len(parts) |-> NameKey(parts[i])])
            got == IF last.err = "none" THEN params[last.ret] ELSE <<>>
        IN  /\ last.err = "none"
            /\ Len(got) = Len(want)
            /\ \A i \in 1..Len(got) :
                  /\ IsStr(got[i].k)
                  /\ got[i].k = want[i].k
                  /\ Shape(docs[got[i].d]) = Flattened(want[i].d)

\* the tails of the children of an element, as a str
RECURSIVE Tails(_)
Tails(kids) ==
    IF kids = <<>> THEN <<>>
    ELSE (IF Truthy(Head(kids).tail) THEN Head(kids).tail ELSE <<>>)
         \o Tails(Tail(kids))

\* the text of an element, its nested templates as strings, and the tails of its
\* children
RECURSIVE TemplatesAndTails(_)
TemplatesAndTails(kids) ==
    IF kids = <<>> THEN <<>>
    ELSE (IF Head(kids).tag = "template" THEN ParsedAlone(Head(kids)) ELSE <<>>)
         \o (IF Truthy(Head(kids).tail) THEN Head(kids).tail ELSE <<>>)
         \o TemplatesAndTails(Tail(kids))

OwnText(x) == IF Truthy(x.text) THEN x.text ELSE <<>>

\* C19: the title of a parsed Template consists only of the literal text of its
\* `title` element: child elements of the title (comments, other tags, nested
\* templates) contribute no characters and are not parsed as templates.
C19_TitleLiteralText ==
    (last.op = "parse_wiki_template" /\ last.err = "none"
        /\ HasKid(last.x, "title")) =>
        LET x == Kid(last.x, "title")
        IN  title[last.ret] = Strip(OwnText(x) \o Tails(x.kids))

\* C19 amended: the title of a parsed Template is the trimmed string of its
\* `title` element parsed without flattening: the element's text and the tails of
\* its children, nothing for a child that is a comment or another tag, and for a
\* nested `template` child the serialization of the Template parsed from it.
C19_TitleAmended ==
    (last.op = "parse_wiki_template" /\ last.err = "none"
        /\ HasKid(last.x, "title")) =>
        LET x == Kid(last.x, "title")
        IN  title[last.ret] = Strip(OwnText(x) \o TemplatesAndTails(x.kids))

\* a template whose title holds " T" and a nested template was parsed: its title
\* is T{{T}}
C19_Witness ==
    /\ last.op = "parse_wiki_template"
    /\ last.err = "none"
    /\ HasKid(last.x, "title")
    /\ Kid(last.x, "title").text = <<" ", "T">>
    /\ Kid(last.x, "title").kids = <<PlainTemplate>>
    /\ title[last.ret] = <<"T", "{", "{", "T", "}", "}">>

\* A part that cannot be turned into a parameter: it lacks its name or its
\* value, or its name has neither an index nor text, or its value holds a
\* template that cannot be built.  A template that cannot be built: one with
\* such a part, or with such a template in its title.  `Broken` says whether
\* some template the parser comes to among the children cannot be built (when
\* not flattening, it only comes to the children that are templates).
RECURSIVE Broken(_, _)
RECURSIVE BrokenTemplate(_)
BrokenPart(p) ==
    \/ ~WellFormed(p)
    \/ ~Truthy(Kid(p, "name").index) /\ Kid(p, "name").text = NoneStr
    \/ Broken(Kid(p, "value").kids, TRUE)
BrokenTemplate(x) ==
    \E i \in 1..Len(x.kids) :
        \/ x.kids[i].tag = "title" /\ Broken(x.kids[i].kids, FALSE)
        \/ x.kids[i].tag = "part" /\ BrokenPart(x.kids[i])
Broken(kids, flatten) ==
    \E i \in 1..Len(kids) :
        IF kids[i].tag = "template" THEN BrokenTemplate(kids[i])
        ELSE flatten /\ Broken(kids[i].kids, flatten)

\* C20: a call of WParser.parse (with a title or a text) whose fetch fails or
\* whose tree cannot be built (a malformed subtree, a part without name or value)
\* returns None: no exception reaches the caller and no partly built Document is
\* returned.  A Document that is returned is the whole parse of the tree.
C20_ParseReturnsNone ==
    (last.op = "parse" /\ last.flag) =>
        /\ last.err = "none"
        /\ IF last.x = FetchError \/ Broken(last.x.kids, TRUE)
           THEN last.ret = None
           ELSE /\ last.ret # None
                /\ Shape(docs[last.ret]) = Flattened(last.x)

\* parse was given a tree whose second template has a part without value, after
\* a template that could be built: it returned None
C20_Witness ==
    /\ last.op = "parse"
    /\ last.flag
    /\ last.x.tag = "root"
    /\ Len(last.x.kids) = 2
    /\ last.x.kids[1] = PlainTemplate
    /\ last.x.kids[2].tag = "template"
    /\ BrokenTemplate(last.x.kids[2])
    /\ last.err = "none"
    /\ last.ret = None

\* whether Template t is among the templates tl handed to normalize
Given(tl, t) == \E i \in 1..Len(tl) : tl[i] = t

\* C21: normalize(wiki, templates): for each pair old -> new returned by the title
\* canonicalization, every given Template whose title was old gets the
\* namespace-stripped form of new as its title when the namespace of new is the
\* Template namespace name, and new itself otherwise; Templates whose title has no
\* returned pair keep their title; so also when several given Templates share a
\* title.
C21_Normalize ==
    [][LET l == last'
       IN  l.op = "normalize" =>
               \A t \in 1..ntpls :
                   IF Given(l.tl, t) /\ \E p \in l.reply : p.old = title[t]
                   THEN LET new == (CHOOSE p \in l.reply : p.old = title[t]).new
                        IN  title'[t] = IF WhichNs(new) = TemplateNs
                                        THEN Nss(new) ELSE new
                   ELSE title'[t] = title[t]]_vars

\* the Templates held by the parameter Documents of Template t
Nested(t) ==
    {docs[params[t][i].d][j].id :
        <<i, j>> \in {<<i, j>> \in (1..Len(params[t])) \X (1..lim.nodes) :
                         /\ j <= Len(docs[params[t][i].d])
                         /\ docs[params[t][i].d][j].ty = "tpl"}}

\* the Templates reached from those of S in at most n steps from a parameter
\* Document to a Template it holds
RECURSIVE Reached(_, _)
Reached(S, n) ==
    IF n = 0 THEN S
    ELSE Reached(S \cup UNION {Nested(t) : t \in S}, n - 1)

\* C23: in every state reached by the public operations the graph is free of
\* cycles: no Template is reached from itself by following parameter Document ->
\* contained Template links, so that serializing a Document or a Template
\* terminates.
C23_CycleFree ==
    /\ \A t \in 1..ntpls : t \notin Reached(Nested(t), ntpls)
    /\ last.op \in {"as_text", "template_as_text"} => last.err = "none"

\* C24: `+=` with a Document argument always terminates after appending finitely
\* many nodes, also when the argument is the receiving Document itself (d += d,
\* or append_to_params(k, t[k])) and that Document holds Templates.
C24_AppendTerminates ==
    /\ ~hung
    /\ last.op \in {"iadd", "append_to_params"} => last.err # "hang"

\* the wikitext that a parse tree stands for: the text of an element, then each
\* child and its tail; a template is written between {{ and }}, a part after |
Written(s) == IF s = NoneStr THEN <<>> ELSE s
RECURSIVE Unparse(_)
RECURSIVE UnparseKids(_)
Unparse(x) ==
    CASE x.tag = "template" -> <<"{", "{">> \o UnparseKids(x.kids) \o <<"}", "}">>
      [] x.tag = "part"     -> <<"|">> \o UnparseKids(x.kids)
      [] OTHER              -> Written(x.text) \o UnparseKids(x.kids)
UnparseKids(kids) ==
    IF kids = <<>> THEN <<>>
    ELSE Unparse(Head(kids)) \o Written(Head(kids).tail) \o UnparseKids(Tail(kids))

\* the tree handed to the parser stands for the serialized text, character by
\* character
Faithful == last.op = "parse_text" /\ last.err = "none" => Unparse(last.x) = last.out

\* A node sequence by value: its characters and, for each Template, the title
\* and the parameters in order, each value again by value (n levels deep).
RECURSIVE Content(_, _, _)
Content(h, l, n) ==
    IF l = <<>> THEN <<>>
    ELSE (IF Head(l).ty = "str"
          THEN [i \in 1..Len(Head(l).s) |-> [c |-> Head(l).s[i], t |-> <<>>]]
          ELSE LET ps == h.params[Head(l).id]
               IN  <<[c |-> "",
                      t |-> <<[title |-> h.title[Head(l).id],
                               params |->
                                   [i \in 1..Len(ps) |->
                                       [k |-> ps[i].k,
                                        v |-> IF n = 0 THEN <<>>
                                              ELSE Content(h, h.docs[ps[i].d], n - 1)]]]>>]>>)
         \o Content(h, Tail(l), n)

\* a node sequence by value without the whitespace at its two ends
TrimEnds(c) ==
    LET solid == {i \in 1..Len(c) : c[i].t # <<>> \/ ~IsSpace(c[i].c)}
    IN  IF solid = {} THEN <<>>
        ELSE SubSeq(c, CHOOSE i \in solid : \A j \in solid : i <= j,
                       CHOOSE i \in solid : \A j \in solid : j <= i)

\* the Templates held by Document d and those nested in them
Holds(d) ==
    Reached({docs[d][j].id : j \in {j \in 1..Len(docs[d]) : docs[d][j].ty = "tpl"}},
            ntpls)

\* Document d holds only text and Templates with string titles and string keys
StringsOnly(d) ==
    \A t \in Holds(d) :
        /\ title[t] # NoneStr
        /\ \A i \in 1..Len(params[t]) : IsStr(params[t][i].k)

\* C22: round trip: for a Document of text runs and Templates with string titles,
\* string keys and nested Documents, parsing the tree that stands for the
\* serialized Document gives an equivalent sequence of text and Template nodes:
\* the same titles, keys, key order and parameter values, the text compared
\* without the whitespace at the two ends of the whole result.
C22_RoundTrip ==
    (/\ last.op = "parse_text"
     /\ last.err = "none"
     /\ StringsOnly(last.d)
     /\ Unparse(last.x) = last.out) =>
        /\ last.ret # None
        /\ TrimEnds(Content(Heap, docs[last.ret], ntpls))
              = TrimEnds(Content(Heap, docs[last.d], ntpls))

====
